---- MODULE Spec2Model ----
(***************************************************************************)
(* Model of the Checkout request handler of streamsdk-express              *)
(* (src/unnamed/part_003).  One handler invocation is a small state        *)
(* machine whose states are the await points of the async function; the    *)
(* remote payment platform (consumer directory, payment links) is the      *)
(* environment.                                                            *)
(***************************************************************************)
EXTENDS Integers, Sequences, FiniteSets, TLC

VARIABLES
    req,        \* request id -> state of that handler invocation
    directory,  \* remote consumer directory, in listing order
    dirPages,   \* number of pages the remote directory reports (size 100)
    config,     \* CheckoutConfig captured by the factory
    hooks,      \* delivery id -> state of that webhook handler invocation
    webhookConfig   \* WebhookConfig captured by the Webhooks factory

vars == <<req, directory, dirPages, config, hooks, webhookConfig>>

---------------------------------------------------------------------------
(* Bounds of the model *)

MaxLen == 3          \* longest `products` string
MaxDir == 2          \* consumers of interest in the directory at start
MaxDirPages == 51    \* largest directory, in pages
MaxCalls == 60       \* longest call log of one request

(* Program constants: the page cap of the fallback and the page size of    *)
(* every listConsumers call *)

PageLimit == 50
PageSize == 100

---------------------------------------------------------------------------
(* JavaScript values *)

Undefined == "<undefined>"

Truthy(s) == s # Undefined /\ s # ""

Or(a, b) == IF Truthy(a) THEN a ELSE b

Chars == {"a", "b", " ", ","}

RECURSIVE StringsUpTo(_)
StringsUpTo(n) ==
    IF n = 0 THEN {<<>>}
    ELSE LET S == StringsUpTo(n - 1)
         IN  S \cup {Append(s, c) : s \in {t \in S : Len(t) = n - 1}, c \in Chars}

---------------------------------------------------------------------------
(* String.prototype.split(',') and String.prototype.trim() *)

RECURSIVE Split(_)
Split(s) ==
    IF \A i \in 1..Len(s) : s[i] # ","
    THEN <<s>>
    ELSE LET k == CHOOSE i \in 1..Len(s) :
                      s[i] = "," /\ \A j \in 1..(i - 1) : s[j] # ","
         IN  <<SubSeq(s, 1, k - 1)>> \o Split(SubSeq(s, k + 1, Len(s)))

RECURSIVE TrimStart(_)
TrimStart(s) ==
    IF s # <<>> /\ Head(s) = " " THEN TrimStart(Tail(s)) ELSE s

RECURSIVE TrimEnd(_)
TrimEnd(s) ==
    IF s # <<>> /\ s[Len(s)] = " " THEN TrimEnd(SubSeq(s, 1, Len(s) - 1)) ELSE s

Trim(s) == TrimEnd(TrimStart(s))

(* line 51: products ? products.split(',').map(id => id.trim()) : [] *)
ParseProducts(p) ==
    IF p.given /\ p.text # <<>>
    THEN LET segs == Split(p.text) IN [i \in 1..Len(segs) |-> Trim(segs[i])]
    ELSE <<>>

(* lines 65-68 *)
Items(productIds) ==
    [i \in 1..Len(productIds) |-> [product_id |-> productIds[i], quantity |-> 1]]

---------------------------------------------------------------------------
(* The remote consumer directory.  A consumer carries an id and optionally *)
(* a phone number and an email; `page` is the page of the un-filtered      *)
(* listing (size 100) it appears on.  Consumers that match nothing a       *)
(* request can ask for fill the rest of every page and are left implicit.  *)

Phone1 == "+966501234567"
Phone2 == "+966509999999"
Email1 == "ahmad@example.com"
Email2 == "other@example.com"

(* phone number and email of the consumers of interest: the one a request *)
(* asks for by phone, the one it asks for by email, somebody else, and a   *)
(* consumer that carries neither field.  `createdBy` is 0 for a consumer   *)
(* that was in the directory before any request, and the request id for    *)
(* one that a createConsumer call added. *)
ConsumerKinds ==
    { <<Phone1, Undefined>>, <<Undefined, Email1>>,
      <<Phone2, Email2>>, <<Undefined, Undefined>> }

ConsumerId(i) == "c" \o ToString(i)

(* a single page, as many pages as the handler reads at most, one more *)
DirSizes == {1, MaxDirPages - 1, MaxDirPages}

(* Directories of n consumers on np pages: the first k on page 1, the rest *)
(* on the last page. *)
DirectoriesOf(n, np) ==
    { [i \in 1..n |-> [id |-> ConsumerId(i),
                       phone_number |-> kinds[i][1],
                       email |-> kinds[i][2],
                       page |-> IF i <= k THEN 1 ELSE np,
                       createdBy |-> 0]] :
        kinds \in [1..n -> ConsumerKinds],
        k \in (IF np = 1 THEN {n} ELSE 0..n) }

PageOf(dir, p) == SelectSeq(dir, LAMBDA c : c.page = p)

(* All subsequences of a sequence: what a fuzzy search may return. *)
SubSeqs(s) ==
    { LET keepIdx == {i \in 1..Len(s) : keep[i]}
          F[i \in 0..Len(s)] ==
              IF i = 0 THEN <<>>
              ELSE IF i \in keepIdx THEN Append(F[i - 1], s[i]) ELSE F[i - 1]
      IN  F[Len(s)] : keep \in [1..Len(s) -> BOOLEAN] }

(* Array.prototype.find, given the elements that satisfy the test in array *)
(* order: the first of them, as a sequence of length 0 (undefined) or 1. *)
FirstOf(hits) == IF hits = <<>> THEN <<>> ELSE <<Head(hits)>>

---------------------------------------------------------------------------
(* Metadata: decodeURIComponent and JSON.parse on the values a request may *)
(* carry.  Each returns <<>> when it throws and <<value>> otherwise.       *)

MetaEncoded == "%7B%22order%22%3A%2242%22%7D"
MetaPlain == "{\"order\":\"42\"}"
MetaNotJson == "order=42"
MetaBadEscape == "%E0%A4%A"

DecodeURIComponent(s) ==
    CASE s = MetaEncoded -> <<MetaPlain>>
      [] s = MetaBadEscape -> <<>>
      [] OTHER -> <<s>>

JSONParse(s) ==
    IF s = MetaPlain THEN <<[order |-> "42"]>> ELSE <<>>

ParsedMetadataUnchecked(metadata) ==
    IF ~Truthy(metadata) THEN <<>>
    ELSE LET decoded == DecodeURIComponent(metadata)
         IN  IF decoded = <<>> THEN <<>>
             ELSE IF JSONParse(decoded[1]) = <<>>
                  THEN <<[order |-> decoded[1]]>>
                  ELSE JSONParse(decoded[1])

(* lines 174-181: the metadata attached to the payment link, if any *)
ParsedMetadata(metadata) ==
    IF ~Truthy(metadata) THEN <<>>
    ELSE LET decoded == DecodeURIComponent(metadata)
         IN  IF decoded = <<>> THEN <<>> ELSE JSONParse(decoded[1])

---------------------------------------------------------------------------
(* State of one handler invocation *)

NoLink ==
    [name |-> Undefined, items |-> <<>>, success_redirect_url |-> Undefined,
     failure_redirect_url |-> Undefined, coupons |-> <<>>,
     organization_consumer_id |-> Undefined, metadata |-> <<>>]

NewRequest(q) ==
    [query |-> q, pc |-> "start", productIds |-> <<>>, paymentLinkData |-> NoLink,
     consumerId |-> Undefined, existingConsumer |-> <<>>,
     currentPage |-> 0, hasMorePages |-> FALSE,
     calls |-> <<>>, created |-> <<>>, links |-> <<>>,
     thrown |-> {}, missed |-> FALSE,
     paymentUrl |-> Undefined, now |-> 0,
     res |-> <<>>, nextErrs |-> <<>>]

(* A remote call as the platform sees it: listConsumers with its page and  *)
(* search term, createConsumer, createPaymentLink. *)
Call(op, page, size, term) ==
    [op |-> op, page |-> page, size |-> size, search_term |-> term]

Logged(h, call) == [h EXCEPT !.calls = Append(@, call)]

(* The call `at` threw outside the inner try blocks of the searches. *)
Threw(h, at) == [h EXCEPT !.thrown = @ \cup {at}]

(* A page came back without its data list or its pagination block, and so  *)
(* hid entries or pages that the directory holds (lost = TRUE). *)
Partial(h, lost) == IF lost THEN [h EXCEPT !.missed = TRUE] ELSE h

CatchAndAnswer(h, error) ==
    [h EXCEPT !.pc = "done", !.nextErrs = Append(@, error),
              !.res = Append(@, [kind |-> "json", status |-> 500, body |-> error])]

CatchAndContinue(h, error) ==
    IF h.pc = "createPaymentLink"
    THEN [h EXCEPT !.pc = "done", !.nextErrs = Append(@, error)]
    ELSE [h EXCEPT !.pc = "createPaymentLink"]

(* lines 195-197: catch (error) { next(error) } *)
Catch(h, error) ==
    [h EXCEPT !.pc = "done", !.nextErrs = Append(@, error)]

RespondJsonNoReturn(h, code, error) ==
    [h EXCEPT !.pc = "done",
              !.res = IF code = 500
                      THEN @ \o <<[kind |-> "json", status |-> code, body |-> error],
                                  [kind |-> "redirect", status |-> 302,
                                   body |-> h.paymentUrl]>>
                      ELSE Append(@, [kind |-> "json", status |-> code, body |-> error])]

(* lines 54-56 and 188-190: return res.status(code).json({error}) *)
RespondJson(h, code, error) ==
    [h EXCEPT !.pc = "done",
              !.res = Append(@, [kind |-> "json", status |-> code, body |-> error])]

(* line 194: res.redirect(paymentUrl) *)
Redirect(h, url) ==
    [h EXCEPT !.pc = "done",
              !.res = Append(@, [kind |-> "redirect", status |-> 302, body |-> url])]

(* lines 169-181, up to the await of createPaymentLink *)
Finish(h) ==
    [h EXCEPT !.pc = "createPaymentLink",
              !.paymentLinkData =
                  [@ EXCEPT !.organization_consumer_id =
                                IF Truthy(h.consumerId) THEN h.consumerId ELSE @,
                            !.metadata = ParsedMetadata(h.query.metadata)]]

ResolveWithoutCreate(h) ==
    IF h.existingConsumer # <<>>
    THEN Finish([h EXCEPT !.consumerId = h.existingConsumer[1].id])
    ELSE Finish(h)

ResolveCreateAlways(h) ==
    IF h.existingConsumer # <<>>
    THEN Finish([h EXCEPT !.consumerId = h.existingConsumer[1].id])
    ELSE [h EXCEPT !.pc = "createConsumer"]

(* lines 147-166, up to the await of createConsumer *)
Resolve(h) ==
    IF h.existingConsumer # <<>>
    THEN Finish([h EXCEPT !.consumerId = h.existingConsumer[1].id])
    ELSE IF Truthy(h.query.customerName)
         THEN [h EXCEPT !.pc = "createConsumer"]
         ELSE Finish(h)

(* line 114: entry to the pagination fallback *)
AfterEmail(h) ==
    IF h.existingConsumer = <<>>
       /\ (Truthy(h.query.customerPhone) \/ Truthy(h.query.customerEmail))
    THEN [h EXCEPT !.pc = "paginate", !.currentPage = 1, !.hasMorePages = TRUE]
    ELSE Resolve(h)

AfterPhoneAlwaysEmail(h) ==
    IF Truthy(h.query.customerEmail)
    THEN [h EXCEPT !.pc = "emailSearch"]
    ELSE AfterEmail(h)

(* line 97: entry to the search by email *)
AfterPhone(h) ==
    IF h.existingConsumer = <<>> /\ Truthy(h.query.customerEmail)
    THEN [h EXCEPT !.pc = "emailSearch"]
    ELSE AfterEmail(h)

NeedsResolutionIgnoringId(h) ==
    Truthy(h.query.customerPhone) \/ Truthy(h.query.customerEmail)

(* line 78 *)
NeedsResolution(h) ==
    ~Truthy(h.consumerId)
    /\ (Truthy(h.query.customerPhone) \/ Truthy(h.query.customerEmail))

(* lines 74-82: consumerId = customerId, then the resolution cascade *)
BeginResolution(h) ==
    IF NeedsResolution(h)
    THEN IF Truthy(h.query.customerPhone)
         THEN [h EXCEPT !.pc = "phoneSearch", !.existingConsumer = <<>>]
         ELSE AfterPhone([h EXCEPT !.existingConsumer = <<>>])
    ELSE Finish(h)

PhoneSearchMatchEither(q, c) ==
    c.phone_number = q.customerPhone \/ c.email = q.customerEmail

(* line 89 *)
PhoneSearchMatch(q, c) == c.phone_number = q.customerPhone

(* lines 104-106 *)
EmailSearchMatch(q, c) ==
    c.email = q.customerEmail \/ c.phone_number = q.customerPhone

(* lines 126-129 *)
PageMatch(q, c) ==
    \/ Truthy(q.customerPhone) /\ c.phone_number = q.customerPhone
    \/ Truthy(q.customerEmail) /\ c.email = q.customerEmail

ReachedPageLimitEarly(currentPage) == currentPage >= PageLimit

ReachedPageLimitLate(currentPage) == currentPage > PageLimit + 1

(* line 140 *)
ReachedPageLimit(currentPage) == currentPage > PageLimit

---------------------------------------------------------------------------
(* The handler, one action per await point *)

NoProductsError == "At least one product ID is required"
NoUrlError == "Failed to generate payment URL"
PaymentUrl == "https://pay.example/link"

MaxTime == 2
Times == 1..MaxTime

(* line 60: Date.now() is evaluated only when `name` and defaultName are   *)
(* both falsy; 0 stands for "not read"                                      *)
ReadsClock(q, cfg) == ~Truthy(q.name) /\ ~Truthy(cfg.defaultName)

PaymentLinkNameDefaultFirst(q, cfg, now) ==
    IF Truthy(cfg.defaultName) THEN cfg.defaultName
    ELSE IF Truthy(q.name) THEN q.name
    ELSE "Checkout " \o ToString(now)

PaymentLinkNameNoClock(q, cfg, now) ==
    IF Truthy(q.name) THEN q.name
    ELSE IF Truthy(cfg.defaultName) THEN cfg.defaultName
    ELSE "Checkout"

(* line 60 *)
PaymentLinkName(q, cfg, now) ==
    IF Truthy(q.name) THEN q.name
    ELSE IF Truthy(cfg.defaultName) THEN cfg.defaultName
    ELSE "Checkout " \o ToString(now)

BuildLinkNoFallback(q, cfg, productIds, now) ==
    [name |-> PaymentLinkName(q, cfg, now),
     items |-> Items(productIds),
     success_redirect_url |-> cfg.successUrl,
     failure_redirect_url |-> cfg.returnUrl,
     coupons |-> <<>>,
     organization_consumer_id |-> Undefined,
     metadata |-> <<>>]

(* lines 63-72 *)
BuildLink(q, cfg, productIds, now) ==
    [name |-> PaymentLinkName(q, cfg, now),
     items |-> Items(productIds),
     success_redirect_url |-> cfg.successUrl,
     failure_redirect_url |-> Or(cfg.returnUrl, cfg.successUrl),
     coupons |-> <<>>,
     organization_consumer_id |-> Undefined,
     metadata |-> <<>>]

(* lines 152-162 *)
ConsumerData(q) ==
    [name |-> Or(q.customerName, "Customer"),
     phone_number |-> IF Truthy(q.customerPhone) THEN q.customerPhone ELSE Undefined,
     email |-> IF Truthy(q.customerEmail) THEN q.customerEmail ELSE Undefined]

(* lines 40-82: from the query to the first remote call *)
Start(r) ==
    /\ req[r].pc = "start"
    /\ \E now \in Times :
         LET h == req[r]
             q == h.query
             productIds == ParseProducts(q.products)
         IN  req' = [req EXCEPT ![r] =
                 IF Len(productIds) = 0
                 THEN RespondJson(h, 400, NoProductsError)
                 ELSE BeginResolution(
                          [h EXCEPT !.productIds = productIds,
                                    !.now = IF ReadsClock(q, config)
                                            THEN now ELSE 0,
                                    !.paymentLinkData =
                                        BuildLink(q, config, productIds, now),
                                    !.consumerId = q.customerId])]
    /\ UNCHANGED <<directory, dirPages, config, hooks, webhookConfig>>

(* lines 82-94: strategy 1, search by phone *)
PhoneSearch(r) ==
    /\ req[r].pc = "phoneSearch"
    /\ LET h == req[r]
           q == h.query
           h1 == Logged(h, Call("listConsumers", 1, PageSize, q.customerPhone))
       IN  \/ req' = [req EXCEPT ![r] = AfterPhone(h1)]
           \/ req' = [req EXCEPT ![r] =
                  AfterPhone([h1 EXCEPT !.existingConsumer = <<>>])]
           \/ \E data \in SubSeqs(directory) :
                req' = [req EXCEPT ![r] =
                    AfterPhone([h1 EXCEPT
                        !.existingConsumer =
                            FirstOf(SelectSeq(data, LAMBDA c : PhoneSearchMatch(q, c)))])]
    /\ UNCHANGED <<directory, dirPages, config, hooks, webhookConfig>>

(* lines 97-111: strategy 2, search by email *)
EmailSearch(r) ==
    /\ req[r].pc = "emailSearch"
    /\ LET h == req[r]
           q == h.query
           h1 == Logged(h, Call("listConsumers", 1, PageSize, q.customerEmail))
       IN  \/ req' = [req EXCEPT ![r] = AfterEmail(h1)]
           \/ req' = [req EXCEPT ![r] =
                  AfterEmail([h1 EXCEPT !.existingConsumer = <<>>])]
           \/ \E data \in SubSeqs(directory) :
                req' = [req EXCEPT ![r] =
                    AfterEmail([h1 EXCEPT
                        !.existingConsumer =
                            FirstOf(SelectSeq(data, LAMBDA c : EmailSearchMatch(q, c)))])]
    /\ UNCHANGED <<directory, dirPages, config, hooks, webhookConfig>>

AfterPageNoIncrement(h, found, hasNext) ==
    IF found # <<>>
    THEN Resolve([h EXCEPT !.existingConsumer = found])
    ELSE LET h1 == [h EXCEPT !.existingConsumer = <<>>,
                             !.hasMorePages = hasNext]
         IN  IF ReachedPageLimit(h1.currentPage) THEN Resolve(h1)
             ELSE IF h1.hasMorePages THEN h1
             ELSE Resolve(h1)

AfterPageCapIsError(h, found, hasNext) ==
    IF found # <<>>
    THEN Resolve([h EXCEPT !.existingConsumer = found])
    ELSE LET h1 == [h EXCEPT !.existingConsumer = <<>>,
                             !.hasMorePages = hasNext,
                             !.currentPage = @ + 1]
         IN  IF ReachedPageLimit(h1.currentPage) THEN Catch(h1, "PageLimitError")
             ELSE IF h1.hasMorePages THEN h1
             ELSE Resolve(h1)

AfterPageIgnoringLastPage(h, found, hasNext) ==
    IF found # <<>>
    THEN Resolve([h EXCEPT !.existingConsumer = found])
    ELSE LET h1 == [h EXCEPT !.existingConsumer = <<>>,
                             !.hasMorePages = hasNext,
                             !.currentPage = @ + 1]
         IN  IF ReachedPageLimit(h1.currentPage) THEN Resolve(h1) ELSE h1

(* lines 131-144: the rest of one loop iteration after the page was read *)
AfterPage(h, found, hasNext) ==
    IF found # <<>>
    THEN Resolve([h EXCEPT !.existingConsumer = found])
    ELSE LET h1 == [h EXCEPT !.existingConsumer = <<>>,
                             !.hasMorePages = hasNext,
                             !.currentPage = @ + 1]
         IN  IF ReachedPageLimit(h1.currentPage) THEN Resolve(h1)
             ELSE IF h1.hasMorePages THEN h1
             ELSE Resolve(h1)

HasNextPageDefaultTrue(pagination) == pagination = <<>> \/ pagination[1]

(* line 136: consumers.pagination?.has_next_page || false, the pagination  *)
(* block being <<has_next_page>>, or <<>> when the response has none       *)
HasNextPage(pagination) == pagination # <<>> /\ pagination[1]

(* lines 119-144: strategy 3, one iteration of the pagination loop; the    *)
(* call log is capped well above what fifty pages need                     *)
PageFetch(r) ==
    /\ req[r].pc = "paginate"
    /\ Len(req[r].calls) < MaxCalls
    /\ LET h == req[r]
           q == h.query
           h1 == Logged(h, Call("listConsumers", h.currentPage, PageSize, Undefined))
           page == PageOf(directory, h.currentPage)
           found == FirstOf(SelectSeq(page, LAMBDA c : PageMatch(q, c)))
           hasNext == h.currentPage < dirPages
       IN  \/ req' = [req EXCEPT ![r] =
                  Catch(Threw(h1, "listConsumers"), "ListConsumersError")]
           \/ req' = [req EXCEPT ![r] =
                  AfterPage(h1, found, HasNextPage(<<hasNext>>))]
           \/ req' = [req EXCEPT ![r] =
                  AfterPage(Partial(h1, found # <<>>), <<>>, HasNextPage(<<hasNext>>))]
           \/ req' = [req EXCEPT ![r] =
                  AfterPage(Partial(h1, found = <<>> /\ hasNext), found,
                            HasNextPage(<<>>))]
           \/ req' = [req EXCEPT ![r] =
                  AfterPage(Partial(h1, found # <<>> \/ hasNext), <<>>,
                            HasNextPage(<<>>))]
    /\ UNCHANGED <<directory, dirPages, config, hooks, webhookConfig>>

(* lines 152-166: create a new consumer *)
CreateConsumer(r) ==
    /\ req[r].pc = "createConsumer"
    /\ LET h == req[r]
           data == ConsumerData(h.query)
           sent == [Logged(h, Call("createConsumer", 0, 0, Undefined))
                       EXCEPT !.created = Append(@, data)]
           newId == ConsumerId(Len(directory) + 1)
       IN  \/ /\ req' = [req EXCEPT ![r] =
                     Catch(Threw(sent, "createConsumer"), "CreateConsumerError")]
              /\ UNCHANGED directory
           \/ /\ req' = [req EXCEPT ![r] =
                     Finish([sent EXCEPT !.consumerId = newId])]
              /\ directory' = Append(directory,
                     [id |-> newId, phone_number |-> data.phone_number,
                      email |-> data.email, page |-> dirPages,
                      createdBy |-> r])
    /\ UNCHANGED <<dirPages, config, hooks, webhookConfig>>

NoPaymentUrlNullOnly(paymentUrl) == paymentUrl = Undefined

(* line 187: if (!paymentUrl) *)
NoPaymentUrl(paymentUrl) == ~Truthy(paymentUrl)

(* lines 184-194: create the payment link and answer *)
CreatePaymentLink(r) ==
    /\ req[r].pc = "createPaymentLink"
    /\ LET h == req[r]
           sent == [Logged(h, Call("createPaymentLink", 0, 0, Undefined))
                       EXCEPT !.links = Append(@, h.paymentLinkData)]
       IN  \/ req' = [req EXCEPT ![r] =
                  Catch(Threw(sent, "createPaymentLink"), "CreatePaymentLinkError")]
           \/ req' = [req EXCEPT ![r] =
                  Catch(Threw(sent, "getPaymentUrl"), "GetPaymentUrlError")]
           \/ \E paymentUrl \in {PaymentUrl, "", Undefined} :
                LET got == [sent EXCEPT !.paymentUrl = paymentUrl]
                IN  req' = [req EXCEPT ![r] =
                        IF NoPaymentUrl(paymentUrl)
                        THEN RespondJson(got, 500, NoUrlError)
                        ELSE Redirect(got, paymentUrl)]
    /\ UNCHANGED <<directory, dirPages, config, hooks, webhookConfig>>

Next ==
    \/ \E r \in DOMAIN req : Start(r)
    \/ \E r \in DOMAIN req : PhoneSearch(r)
    \/ \E r \in DOMAIN req : EmailSearch(r)
    \/ \E r \in DOMAIN req : PageFetch(r)
    \/ \E r \in DOMAIN req : CreateConsumer(r)
    \/ \E r \in DOMAIN req : CreatePaymentLink(r)

---------------------------------------------------------------------------
(* Initial states *)

(* a Webhooks factory that was never called, and no delivery *)
NoWebhookConfig == [webhookSecret |-> Undefined, registered |-> {}]

AbsentProducts == [given |-> FALSE, text |-> <<>>]

ProductsUpTo(n) ==
    {AbsentProducts} \cup {[given |-> TRUE, text |-> t] : t \in StringsUpTo(n)}

Query(products, name, customerId, customerEmail, customerName, customerPhone, metadata) ==
    [products |-> products, name |-> name, customerId |-> customerId,
     customerEmail |-> customerEmail, customerName |-> customerName,
     customerPhone |-> customerPhone, metadata |-> metadata]

DefaultConfig ==
    [successUrl |-> "https://myapp.com/success",
     returnUrl |-> "https://myapp.com/cancel",
     defaultName |-> "Store Checkout"]

(* Requests that exercise consumer resolution *)
ResolutionQueries ==
    { Query(p, Undefined, cid, ce, cn, cp, Undefined) :
        p \in {AbsentProducts, [given |-> TRUE, text |-> <<"a">>]},
        cid \in {Undefined, "cus_42"},
        ce \in {Undefined, Email1},
        cn \in {Undefined, "Ahmad Ali"},
        cp \in {Undefined, Phone1} }

(* Requests that exercise the parsing of `products` *)
ParseQueries ==
    { Query(p, Undefined, c[1], c[2], c[3], c[4], Undefined) :
        p \in ProductsUpTo(MaxLen),
        c \in { <<Undefined, Undefined, Undefined, Undefined>>,
                <<Undefined, Email1, "Ahmad Ali", Phone1>>,
                <<"", Undefined, Undefined, Phone1>>,
                <<"cus_42", Email1, "Ahmad Ali", Phone1>> } }

Init ==
    /\ hooks = <<>>
    /\ webhookConfig = NoWebhookConfig
    /\ config = DefaultConfig
    /\ dirPages \in DirSizes
    /\ \E n \in 0..MaxDir : directory \in DirectoriesOf(n, dirPages)
    /\ req \in [{1} -> {NewRequest(q) : q \in ResolutionQueries}]

InitParse ==
    /\ hooks = <<>>
    /\ webhookConfig = NoWebhookConfig
    /\ config = DefaultConfig
    /\ dirPages = 1
    /\ directory \in DirectoriesOf(0, 1) \cup DirectoriesOf(1, 1)
    /\ req \in [{1} -> {NewRequest(q) : q \in ParseQueries}]

(* Requests and configurations that exercise the payment link's fields *)
LinkQueries ==
    { Query([given |-> TRUE, text |-> p], n, cid, c[1], cn, c[2], m) :
        p \in {<<"a">>, <<"a", ",", "b">>},
        n \in {Undefined, "", "VIP Checkout"},
        cid \in {Undefined, "cus_42"},
        cn \in {Undefined, "Ahmad Ali"},
        c \in {<<Undefined, Undefined>>, <<Undefined, Phone1>>,
               <<Email1, Undefined>>},
        m \in {Undefined, "", MetaEncoded, MetaPlain, MetaNotJson, MetaBadEscape} }

LinkConfigs ==
    [successUrl : {"https://myapp.com/success"},
     returnUrl : {Undefined, "", "https://myapp.com/cancel"},
     defaultName : {Undefined, "", "Store Checkout"}]

InitLink ==
    /\ hooks = <<>>
    /\ webhookConfig = NoWebhookConfig
    /\ config \in LinkConfigs
    /\ dirPages = 1
    /\ directory \in DirectoriesOf(0, 1) \cup DirectoriesOf(1, 1)
    /\ req \in [{1} -> {NewRequest(q) : q \in LinkQueries}]

(* Two requests in flight at once, against one directory *)
TwoQueries ==
    { Query([given |-> TRUE, text |-> <<"a">>], Undefined, Undefined,
            c[1], c[2], c[3], Undefined) :
        c \in {<<Undefined, Undefined, Undefined>>,
               <<Undefined, "Ahmad Ali", Phone1>>,
               <<Email1, "Ahmad Ali", Undefined>>} }

InitTwo ==
    /\ hooks = <<>>
    /\ webhookConfig = NoWebhookConfig
    /\ config \in [successUrl : {"https://myapp.com/success"},
                   returnUrl : {Undefined},
                   defaultName : {Undefined, "Store Checkout"}]
    /\ dirPages = 1
    /\ directory \in DirectoriesOf(0, 1) \cup DirectoriesOf(1, 1)
    /\ req \in [{1, 2} -> {NewRequest(q) : q \in TwoQueries}]

Spec == Init /\ [][Next]_vars

SpecLink == InitLink /\ [][Next]_vars

SpecTwo == InitTwo /\ [][Next]_vars

(* Requests against directories of at most one consumer of interest *)
InitFair ==
    /\ hooks = <<>>
    /\ webhookConfig = NoWebhookConfig
    /\ config = DefaultConfig
    /\ dirPages \in DirSizes
    /\ \E n \in 0..1 : directory \in DirectoriesOf(n, dirPages)
    /\ req \in [{1} -> {NewRequest(q) : q \in ResolutionQueries}]

SpecScan == InitFair /\ [][Next]_vars

(* every remote call eventually returns or fails: the handler's next step  *)
(* is eventually taken                                                     *)
SpecFair == InitFair /\ [][Next]_vars /\ WF_vars(Next)

SpecParse == InitParse /\ [][Next]_vars

---------------------------------------------------------------------------
(* The Webhooks handler.  Its implementation is not among the sources;     *)
(* this part follows the specification, sections 4.2 and 6: verify the     *)
(* signature, parse the event, await the specific callback, then the       *)
(* catch-all, then acknowledge.                                            *)

MaxDeliveries == 2

TableEvents ==
    {"payment.created", "payment.completed", "payment.paid", "payment.failed",
     "subscription.created", "subscription.updated", "subscription.cancelled",
     "invoice.created", "invoice.paid"}

(* section 6: event name -> callback *)
EventTable ==
    [event \in TableEvents |->
        CASE event = "payment.created" -> "onPaymentCreated"
          [] event \in {"payment.completed", "payment.paid"} -> "onPaymentCompleted"
          [] event = "payment.failed" -> "onPaymentFailed"
          [] event = "subscription.created" -> "onSubscriptionCreated"
          [] event = "subscription.updated" -> "onSubscriptionUpdated"
          [] event = "subscription.cancelled" -> "onSubscriptionCancelled"
          [] event = "invoice.created" -> "onInvoiceCreated"
          [] event = "invoice.paid" -> "onInvoiceCompleted"]

SpecificCallbackForNoAlias(event) ==
    IF event \in TableEvents \ {"payment.paid"} THEN EventTable[event] ELSE Undefined

SpecificCallbackForByFamily(event) ==
    IF event \notin TableEvents THEN Undefined
    ELSE IF event = "invoice.paid" THEN EventTable["invoice.created"]
    ELSE EventTable[event]

(* step 3: the callback an event name selects, if the table lists the name *)
SpecificCallbackFor(event) ==
    IF event \in TableEvents THEN EventTable[event] ELSE Undefined

(* the platform may also emit names the table does not list *)
EventNames == TableEvents \cup {"refund.created"}

SpecificCallbacks == {SpecificCallbackFor(e) : e \in TableEvents}

CatchAll == "onWebhook"

Payloads == {"pay_1", "pay_2"}

(* the raw request body of an event, and its parse *)
RawBody(event, data) ==
    "{\"event\":\"" \o event \o "\",\"data\":\"" \o data \o "\"}"

ParseBody(rawBody) ==
    CHOOSE ev \in [event : EventNames, data : Payloads] :
        RawBody(ev.event, ev.data) = rawBody

(* HMAC-SHA256 of the raw body under a secret: distinct for distinct        *)
(* secrets and for distinct bodies                                         *)
Hmac(secret, rawBody) == "sha256(" \o secret \o "," \o rawBody \o ")"

Secret == "whsec_1"

SignatureAcceptedWhenPresent(cfg, h) ==
    \/ ~Truthy(cfg.webhookSecret)
    \/ ~Truthy(h.signature)
    \/ h.signature = Hmac(cfg.webhookSecret, h.rawBody)

(* step 1: verification is skipped when no secret is configured *)
SignatureAccepted(cfg, h) ==
    ~Truthy(cfg.webhookSecret) \/ h.signature = Hmac(cfg.webhookSecret, h.rawBody)

NewDelivery(rawBody, signature) ==
    [rawBody |-> rawBody, signature |-> signature, pc |-> "received",
     event |-> Undefined, data |-> Undefined,
     log |-> <<>>, error |-> <<>>, res |-> <<>>, nextErrs |-> <<>>]

(* one entry of a delivery's callback log *)
Entry(callback, phase, args) ==
    [callback |-> callback, phase |-> phase, args |-> args]

(* step 1: AuthenticationError, answered directly *)
Reject(h) ==
    [h EXCEPT !.pc = "done",
              !.res = Append(@, [kind |-> "json", status |-> 401,
                                 body |-> "AuthenticationError"])]

(* step 7, or the framework's error path when a callback threw *)
Complete(h) ==
    IF h.error # <<>>
    THEN [h EXCEPT !.pc = "done", !.nextErrs = Append(@, h.error[1])]
    ELSE [h EXCEPT !.pc = "done",
                   !.res = Append(@, [kind |-> "json", status |-> 200,
                                      body |-> "received"])]

(* onWebhook(event, data) is called and awaited *)
CallCatchAll(h) ==
    [h EXCEPT !.pc = "catchAll",
              !.log = Append(@, Entry(CatchAll, "call", <<h.event, h.data>>))]

ToCatchAllIfUnmatched(cfg, h) ==
    IF CatchAll \in cfg.registered /\ SpecificCallbackFor(h.event) \notin cfg.registered
    THEN CallCatchAll(h)
    ELSE Complete(h)

(* step 4: the catch-all, whether or not a specific callback matched *)
ToCatchAll(cfg, h) ==
    IF CatchAll \in cfg.registered THEN CallCatchAll(h) ELSE Complete(h)

AfterSpecificThrowAbort(cfg, h) == Complete(h)

(* step 5: a throwing specific callback does not stop the catch-all *)
AfterSpecificThrow(cfg, h) == ToCatchAll(cfg, h)

(* step 3: the specific callback of the event, called and awaited *)
Dispatch(cfg, h) ==
    LET callback == SpecificCallbackFor(h.event)
    IN  IF callback \in cfg.registered
        THEN [h EXCEPT !.pc = "specific",
                       !.log = Append(@, Entry(callback, "call", <<h.data>>))]
        ELSE ToCatchAll(cfg, h)

(* steps 1-3: from the request to the first awaited callback *)
Receive(d) ==
    /\ hooks[d].pc = "received"
    /\ LET h == hooks[d]
           parsed == ParseBody(h.rawBody)
       IN  hooks' = [hooks EXCEPT ![d] =
               IF ~SignatureAccepted(webhookConfig, h)
               THEN Reject(h)
               ELSE Dispatch(webhookConfig,
                             [h EXCEPT !.event = parsed.event,
                                       !.data = parsed.data])]
    /\ UNCHANGED <<req, directory, dirPages, config, webhookConfig>>

(* the awaited specific callback returns or throws *)
SpecificSettles(d) ==
    /\ hooks[d].pc = "specific"
    /\ LET h == hooks[d]
           callback == h.log[Len(h.log)].callback
       IN  \/ hooks' = [hooks EXCEPT ![d] =
                  ToCatchAll(webhookConfig,
                      [h EXCEPT !.log = Append(@, Entry(callback, "return", <<>>))])]
           \/ hooks' = [hooks EXCEPT ![d] =
                  AfterSpecificThrow(webhookConfig,
                      [h EXCEPT !.log = Append(@, Entry(callback, "throw", <<>>)),
                                !.error = <<callback>>])]
    /\ UNCHANGED <<req, directory, dirPages, config, webhookConfig>>

(* the awaited catch-all returns or throws *)
CatchAllSettles(d) ==
    /\ hooks[d].pc = "catchAll"
    /\ LET h == hooks[d]
       IN  \/ hooks' = [hooks EXCEPT ![d] =
                  Complete([h EXCEPT !.log = Append(@, Entry(CatchAll, "return", <<>>))])]
           \/ hooks' = [hooks EXCEPT ![d] =
                  Complete([h EXCEPT !.log = Append(@, Entry(CatchAll, "throw", <<>>)),
                                     !.error = IF @ # <<>> THEN @ ELSE <<CatchAll>>])]
    /\ UNCHANGED <<req, directory, dirPages, config, webhookConfig>>

NextHook ==
    \/ \E d \in DOMAIN hooks : Receive(d)
    \/ \E d \in DOMAIN hooks : SpecificSettles(d)
    \/ \E d \in DOMAIN hooks : CatchAllSettles(d)

(* Configurations: with and without a secret; no callback, all of them,    *)
(* one specific callback, all but that one; each with and without onWebhook *)
WebhookConfigs ==
    [webhookSecret : {Undefined, Secret},
     registered : {s \cup w : s \in {{}, SpecificCallbacks, {"onPaymentCompleted"},
                                     SpecificCallbacks \ {"onPaymentCompleted"}},
                              w \in {{}, {CatchAll}}}]

(* what the sender may put in the signature header of a body *)
Signatures(rawBody) ==
    {Hmac(Secret, rawBody), Hmac("whsec_other", rawBody),
     Hmac(Secret, RawBody("payment.failed", "pay_2")), Undefined}

Deliveries ==
    UNION {{NewDelivery(RawBody(e, "pay_1"), sig) :
                sig \in Signatures(RawBody(e, "pay_1"))} : e \in EventNames}

(* the deliveries that follow the first *)
LaterDeliveries ==
    UNION {{NewDelivery(RawBody(e, "pay_2"), sig) :
                sig \in {Hmac(Secret, RawBody(e, "pay_2")), Undefined}} :
            e \in {"payment.completed", "payment.paid", "refund.created"}}

InitHook ==
    /\ req = <<>>
    /\ directory = <<>>
    /\ dirPages = 1
    /\ config = DefaultConfig
    /\ webhookConfig \in WebhookConfigs
    /\ hooks \in [1..MaxDeliveries -> Deliveries \cup LaterDeliveries]
    /\ hooks[1] \in Deliveries
    /\ \A d \in 2..MaxDeliveries : hooks[d] \in LaterDeliveries

SpecHook == InitHook /\ [][NextHook]_vars

---------------------------------------------------------------------------
(* Vocabulary of the properties *)

Requests == DOMAIN req

CallsOf(h, op) == SelectSeq(h.calls, LAMBDA c : c.op = op)

(* the un-filtered listConsumers calls: the page fetches of the fallback *)
PageFetches(h) ==
    SelectSeq(h.calls, LAMBDA c : c.op = "listConsumers" /\ c.search_term = Undefined)

Answered(h, code, error) ==
    h.res = <<[kind |-> "json", status |-> code, body |-> error]>>

Redirected(h) == Len(h.res) = 1 /\ h.res[1].kind = "redirect"

(* `products` absent, empty, or made of whitespace and commas only *)
BlankProducts(p) ==
    ~p.given \/ \A i \in 1..Len(p.text) : p.text[i] \in {" ", ","}

(* the comma-separated segments that are non-empty after trimming *)
NonEmptySegments(text) ==
    SelectSeq([i \in 1..Len(Split(text)) |-> Trim(Split(text)[i])],
              LAMBDA seg : seg # <<>>)

(* the consumers that were in the directory before the requests *)
Existing == SelectSeq(directory, LAMBDA c : c.createdBy = 0)

ExistingIds == {Existing[i].id : i \in 1..Len(Existing)}

(* c carries exactly the phone number or exactly the email the query gives *)
ExactMatch(q, c) ==
    \/ Truthy(q.customerPhone) /\ c.phone_number = q.customerPhone
    \/ Truthy(q.customerEmail) /\ c.email = q.customerEmail

---------------------------------------------------------------------------
(* C1: a request whose `products` value is absent, empty, or only          *)
(* whitespace and commas is answered 400 "At least one product ID is       *)
(* required" and makes no remote call.  Stated as written; the handler     *)
(* rejects only an absent or empty value.                                  *)
C1_BlankProductsRejected ==
    \A r \in Requests :
        LET h == req[r]
        IN  (h.pc # "start" /\ BlankProducts(h.query.products))
                => /\ Answered(h, 400, NoProductsError)
                   /\ h.calls = <<>>

(* C2: the items of the payment-link request are exactly the segments of   *)
(* `products` that are non-empty after trimming, in order, quantity 1.     *)
(* Stated as written; the handler keeps the empty segments.                *)
C2_ItemsAreNonEmptySegments ==
    \A r \in Requests :
        LET h == req[r]
            p == h.query.products
        IN  (p.given /\ p.text # <<>>)
                => \A i \in 1..Len(h.links) :
                       h.links[i].items = Items(NonEmptySegments(p.text))

(* C3: with a customerId supplied the handler makes no listConsumers and   *)
(* no createConsumer call, whatever other customer fields are present, and *)
(* the payment-link request carries that customerId as its consumer id.    *)
C3_CustomerIdSkipsResolution ==
    \A r \in Requests :
        LET h == req[r]
        IN  Truthy(h.query.customerId)
                => /\ CallsOf(h, "listConsumers") = <<>>
                   /\ CallsOf(h, "createConsumer") = <<>>
                   /\ \A i \in 1..Len(h.links) :
                          h.links[i].organization_consumer_id = h.query.customerId

C3_Witness ==
    \E r \in Requests :
        LET h == req[r]
        IN  /\ Truthy(h.query.customerId)
            /\ Truthy(h.query.customerPhone)
            /\ Truthy(h.query.customerEmail)
            /\ Truthy(h.query.customerName)
            /\ \E i \in 1..Len(directory) : ExactMatch(h.query, directory[i])
            /\ Len(h.links) = 1
            /\ Redirected(h)

---------------------------------------------------------------------------
(* the request got past validation and consumer resolution is over *)
Resolved(h) == h.productIds # <<>> /\ h.pc \in {"createPaymentLink", "done"}

CreatedBy(r) == SelectSeq(directory, LAMBDA c : c.createdBy = r)

C6_GuestCheckoutProceeds ==
    \A r \in Requests :
        LET h == req[r]
            q == h.query
        IN  (/\ h.pc = "done"
             /\ h.productIds # <<>>
             /\ ~Truthy(q.customerId)
             /\ ~Truthy(q.customerName)
             /\ h.existingConsumer = <<>>)
                => /\ CallsOf(h, "createConsumer") = <<>>
                   /\ Len(h.links) = 1
                   /\ h.links[1].organization_consumer_id = Undefined
                   /\ \/ Redirected(h)
                      \/ h.thrown \cap {"createPaymentLink", "getPaymentUrl"} # {}
                      \/ Answered(h, 500, NoUrlError)

(* C7: one request makes at most 50 un-filtered listConsumers calls, also  *)
(* when every page reports a next page and none holds a match.             *)
C7_AtMostFiftyPageFetches ==
    \A r \in Requests : Len(PageFetches(req[r])) <= 50

(* the directory has more pages than the cap, nothing matched, and the     *)
(* loop was left after the 50th fetch *)
C7_Witness ==
    \E r \in Requests :
        LET h == req[r]
        IN  /\ dirPages > PageLimit
            /\ Len(PageFetches(h)) = PageLimit
            /\ h.hasMorePages
            /\ h.existingConsumer = <<>>
            /\ h.pc = "done"
            /\ Redirected(h)

(* C8: a lookup call that throws (phone search, email search or a page     *)
(* fetch) counts as "no match" and never fails the request.  Stated as     *)
(* written; a page fetch that throws is passed to next.                    *)
C8_LookupFailureNeverFailsRequest ==
    \A r \in Requests :
        \A i \in 1..Len(req[r].nextErrs) :
            req[r].nextErrs[i] # "ListConsumersError"

(* C9: the consumer taken as the resolved match carries exactly the        *)
(* supplied phone number or exactly the supplied email; a field that was   *)
(* not supplied never matches a field the consumer lacks.  Stated as       *)
(* written; the email search compares an absent customerPhone with an      *)
(* absent phone_number and takes them as equal.                            *)
C9_ResolvedConsumerMatchesExactly ==
    \A r \in Requests :
        LET h == req[r]
        IN  h.existingConsumer # <<>> => ExactMatch(h.query, h.existingConsumer[1])

(* the error next receives for a call that threw *)
ErrorOf(at) ==
    CASE at = "listConsumers" -> "ListConsumersError"
      [] at = "createConsumer" -> "CreateConsumerError"
      [] at = "createPaymentLink" -> "CreatePaymentLinkError"
      [] at = "getPaymentUrl" -> "GetPaymentUrlError"

(* C10: an exception that escapes the handler's steps is passed to next    *)
(* exactly once, and the handler then sends no response of its own; next   *)
(* is called for nothing else.                                             *)
C10_ErrorsGoToNextOnce ==
    \A r \in Requests :
        LET h == req[r]
        IN  /\ h.thrown # {}
                => /\ h.pc = "done"
                   /\ h.res = <<>>
                   /\ Len(h.nextErrs) = 1
                   /\ h.thrown = {at \in h.thrown : ErrorOf(at) = h.nextErrs[1]}
            /\ h.nextErrs # <<>> => h.thrown # {}

C10_Witness ==
    \E r \in Requests :
        LET h == req[r]
        IN  /\ h.thrown = {"createConsumer"}
            /\ h.nextErrs = <<"CreateConsumerError">>
            /\ h.res = <<>>
            /\ h.pc = "done"

---------------------------------------------------------------------------
(* createPaymentLink returned and getPaymentUrl gave its answer *)
LinkCreated(h) == h.pc = "done" /\ Len(h.links) = 1 /\ h.thrown = {}

(* C11: when createPaymentLink succeeds and getPaymentUrl yields no URL     *)
(* (null or empty) the handler answers 500 "Failed to generate payment     *)
(* URL" and does not redirect; when it yields a URL the handler redirects  *)
(* to exactly that URL and sends nothing else.                             *)
C11_NoUrlIs500ElseRedirect ==
    \A r \in Requests :
        LET h == req[r]
        IN  LinkCreated(h)
                => IF Truthy(h.paymentUrl)
                   THEN h.res = <<[kind |-> "redirect", status |-> 302,
                                   body |-> h.paymentUrl]>>
                   ELSE Answered(h, 500, NoUrlError)

(* getPaymentUrl returned the empty string *)
C11_Witness ==
    \E r \in Requests :
        LET h == req[r]
        IN  /\ LinkCreated(h)
            /\ h.paymentUrl = ""
            /\ Answered(h, 500, NoUrlError)

---------------------------------------------------------------------------
(* `metadata` was supplied and JSON.parse(decodeURIComponent(.)) throws *)
BadMetadata(metadata) ==
    /\ Truthy(metadata)
    /\ \/ DecodeURIComponent(metadata) = <<>>
       \/ JSONParse(DecodeURIComponent(metadata)[1]) = <<>>

(* the payment link of the same request had it carried no metadata *)
LinkWithoutMetadata(h) ==
    [BuildLink([h.query EXCEPT !.metadata = Undefined], config, h.productIds, h.now)
        EXCEPT !.organization_consumer_id = h.consumerId]

(* C12: a `metadata` parameter that cannot be URL-decoded or JSON-parsed    *)
(* raises no error (only a failing platform call reaches next), and the    *)
(* payment link is sent without a metadata field, its name, items,         *)
(* redirect URLs, coupons and consumer id being those of the link the same *)
(* request would send without metadata.                                    *)
C12_BadMetadataIsDropped ==
    \A r \in Requests :
        LET h == req[r]
        IN  BadMetadata(h.query.metadata)
                => /\ h.nextErrs # <<>> => h.thrown # {}
                   /\ (h.pc = "done" /\ h.thrown = {}) => Len(h.links) = 1
                   /\ \A i \in 1..Len(h.links) :
                          h.links[i] = LinkWithoutMetadata(h)

(* a percent escape that cannot be decoded, and the link was sent *)
C12_Witness ==
    \E r \in Requests :
        LET h == req[r]
        IN  /\ h.query.metadata = MetaBadEscape
            /\ Len(h.links) = 1
            /\ Redirected(h)

---------------------------------------------------------------------------
(* Vocabulary of the webhook properties *)

Hooks == DOMAIN hooks

(* the delivery passed verification and was parsed *)
Accepted(h) == h.event # Undefined

CallsTo(h, callback) ==
    SelectSeq(h.log, LAMBDA e : e.phase = "call" /\ e.callback = callback)

SpecificCalls(h) ==
    SelectSeq(h.log, LAMBDA e : e.phase = "call" /\ e.callback # CatchAll)

(* the signature the configured secret gives the delivery's raw body *)
WrongSignature(h) ==
    /\ Truthy(webhookConfig.webhookSecret)
    /\ h.signature # Hmac(webhookConfig.webhookSecret, h.rawBody)

(* C13: with a webhookSecret configured, a delivery whose signature is not  *)
(* the HMAC-SHA256 of its raw body under the secret is answered 401 and    *)
(* invokes no callback, specific or catch-all; a delivery with the correct *)
(* signature is not rejected and its first call, when a callback is        *)
(* registered for its event name, goes to that callback with the payload.  *)
C13_BadSignatureIs401NoCallback ==
    \A d \in Hooks :
        LET h == hooks[d]
            ev == ParseBody(h.rawBody)
        IN  /\ (WrongSignature(h) /\ h.pc # "received")
                => /\ h.res = <<[kind |-> "json", status |-> 401,
                                 body |-> "AuthenticationError"]>>
                   /\ h.log = <<>>
                   /\ h.nextErrs = <<>>
            /\ (Truthy(webhookConfig.webhookSecret) /\ ~WrongSignature(h)
                    /\ h.pc # "received")
                => /\ \A i \in 1..Len(h.res) : h.res[i].status # 401
                   /\ h.event = ev.event
                   /\ (ev.event \in TableEvents
                            /\ EventTable[ev.event] \in webhookConfig.registered)
                        => h.log[1] = Entry(EventTable[ev.event], "call", <<ev.data>>)

(* a signature made with another secret, every callback registered *)
C13_Witness ==
    \E d \in Hooks :
        LET h == hooks[d]
        IN  /\ webhookConfig.registered = SpecificCallbacks \cup {CatchAll}
            /\ h.signature = Hmac("whsec_other", h.rawBody)
            /\ WrongSignature(h)
            /\ h.pc = "done"
            /\ h.res # <<>> /\ h.res[1].status = 401

(* the specific callback of the delivery threw *)
SpecificThrew(h) ==
    \E i \in 1..Len(h.log) :
        h.log[i].phase = "throw" /\ h.log[i].callback # CatchAll

(* C14: when the specific callback of a delivery throws, the delivery ends *)
(* on the framework's error path with that error and is not acknowledged  *)
(* with 200, and the catch-all onWebhook, if registered, is still invoked *)
(* for the same delivery, once, after the throw.                          *)
C14_ThrowPropagatesCatchAllRuns ==
    \A d \in Hooks :
        LET h == hooks[d]
        IN  SpecificThrew(h)
                => /\ h.res = <<>>
                   /\ h.pc = "done" => h.nextErrs = <<h.log[1].callback>>
                   /\ CatchAll \in webhookConfig.registered
                        => /\ Len(CallsTo(h, CatchAll)) = 1
                           /\ h.log[3] = Entry(CatchAll, "call", <<h.event, h.data>>)

C14_Witness ==
    \E d \in Hooks :
        LET h == hooks[d]
        IN  /\ SpecificThrew(h)
            /\ h.pc = "done"
            /\ Len(CallsTo(h, CatchAll)) = 1
            /\ h.nextErrs # <<>>

(* a delivery whose event name selects a registered specific callback *)
Matched(h) ==
    /\ Accepted(h)
    /\ h.event \in TableEvents
    /\ EventTable[h.event] \in webhookConfig.registered

(* C15: with onWebhook registered, every accepted delivery invokes it      *)
(* exactly once with (event name, payload), also for event names without  *)
(* a specific callback; when a specific callback is registered for the    *)
(* event too, it is invoked exactly once and has returned or thrown       *)
(* before onWebhook is called.                                            *)
C15_BothOnceSpecificFirst ==
    \A d \in Hooks :
        LET h == hooks[d]
        IN  (CatchAll \in webhookConfig.registered /\ Accepted(h) /\ h.pc = "done")
                => /\ CallsTo(h, CatchAll) = <<Entry(CatchAll, "call", <<h.event, h.data>>)>>
                   /\ Matched(h)
                        => /\ CallsTo(h, EventTable[h.event])
                                = <<Entry(EventTable[h.event], "call", <<h.data>>)>>
                           /\ h.log[1].callback = EventTable[h.event]
                           /\ h.log[1].phase = "call"
                           /\ h.log[2].callback = EventTable[h.event]
                           /\ h.log[2].phase \in {"return", "throw"}
                           /\ h.log[3].callback = CatchAll
                           /\ h.log[3].phase = "call"

C15_Witness ==
    \E d \in Hooks :
        LET h == hooks[d]
        IN  /\ Matched(h)
            /\ h.pc = "done"
            /\ Len(CallsTo(h, CatchAll)) = 1
            /\ Len(SpecificCalls(h)) = 1
            /\ h.res # <<>> /\ h.res[1].status = 200

(* C16: an accepted delivery named payment.completed and one named         *)
(* payment.paid each invoke the configured onPaymentCompleted exactly     *)
(* once, and no other specific callback.                                  *)
C16_CompletedAndPaidShareCallback ==
    \A d \in Hooks :
        LET h == hooks[d]
        IN  (/\ Accepted(h)
             /\ h.event \in {"payment.completed", "payment.paid"}
             /\ "onPaymentCompleted" \in webhookConfig.registered)
                => /\ Len(CallsTo(h, "onPaymentCompleted")) = 1
                   /\ Len(SpecificCalls(h)) = 1

(* two deliveries, one of each name: two invocations *)
C16_Witness ==
    /\ hooks[1].event = "payment.completed" /\ hooks[1].pc = "done"
    /\ hooks[2].event = "payment.paid" /\ hooks[2].pc = "done"
    /\ Len(CallsTo(hooks[1], "onPaymentCompleted")) = 1
    /\ Len(CallsTo(hooks[2], "onPaymentCompleted")) = 1

(* the event-name table as the claim states it *)
ClaimedTable ==
    {<<"payment.created", "onPaymentCreated">>,
     <<"payment.completed", "onPaymentCompleted">>,
     <<"payment.paid", "onPaymentCompleted">>,
     <<"payment.failed", "onPaymentFailed">>,
     <<"subscription.created", "onSubscriptionCreated">>,
     <<"subscription.updated", "onSubscriptionUpdated">>,
     <<"subscription.cancelled", "onSubscriptionCancelled">>,
     <<"invoice.created", "onInvoiceCreated">>,
     <<"invoice.paid", "onInvoiceCompleted">>}

---------------------------------------------------------------------------
(* C18: every payment link sent has config.successUrl as success redirect, *)
(* config.returnUrl as failure redirect when it is configured and         *)
(* config.successUrl otherwise, an empty coupon list, and quantity 1 on   *)
(* every line item.                                                       *)
C18_RedirectsCouponsQuantities ==
    \A r \in Requests :
        \A i \in 1..Len(req[r].links) :
            LET link == req[r].links[i]
            IN  /\ link.success_redirect_url = config.successUrl
                /\ link.failure_redirect_url =
                       IF config.returnUrl \in {Undefined, ""}
                       THEN config.successUrl
                       ELSE config.returnUrl
                /\ link.coupons = <<>>
                /\ Len(link.items) = Len(req[r].productIds)
                /\ \A k \in 1..Len(link.items) : link.items[k].quantity = 1

(* no returnUrl configured, two line items, link sent *)
C18_Witness ==
    \E r \in Requests :
        /\ config.returnUrl = Undefined
        /\ Len(req[r].links) = 1
        /\ Len(req[r].links[1].items) = 2
        /\ req[r].links[1].failure_redirect_url = config.successUrl

(* C19: the name of the payment link sent is the `name` query parameter    *)
(* when one is supplied, else config.defaultName when one is configured,  *)
(* else "Checkout " followed by the timestamp the request read; the clock *)
(* is read, and the generated name used, only when both are absent.       *)
C19_NamePriority ==
    \A r \in Requests :
        LET h == req[r]
            q == h.query
        IN  /\ h.now # 0 => (q.name \in {Undefined, ""}
                                /\ config.defaultName \in {Undefined, ""})
            /\ \A i \in 1..Len(h.links) :
                   LET sent == h.links[i].name
                   IN  /\ q.name \notin {Undefined, ""} => sent = q.name
                       /\ (q.name \in {Undefined, ""}
                            /\ config.defaultName \notin {Undefined, ""})
                                => sent = config.defaultName
                       /\ (q.name \in {Undefined, ""}
                            /\ config.defaultName \in {Undefined, ""})
                                => /\ h.now \in Times
                                   /\ sent = "Checkout " \o ToString(h.now)

(* a `name` parameter overriding a configured defaultName, link sent *)
C19_Witness ==
    \E r \in Requests :
        /\ req[r].query.name = "VIP Checkout"
        /\ config.defaultName = "Store Checkout"
        /\ Len(req[r].links) = 1
        /\ req[r].links[1].name = "VIP Checkout"

---------------------------------------------------------------------------
(* the request read the clock for a generated name and sent its link *)
SentGenerated(h) == h.now # 0 /\ Len(h.links) = 1

(* C20 as stated: two requests in flight together that both use the        *)
(* generated fallback name send payment links with distinct names, also   *)
(* when both read the same timestamp.                                     *)
C20_GeneratedNamesDistinct ==
    \A r1, r2 \in Requests :
        (r1 # r2 /\ SentGenerated(req[r1]) /\ SentGenerated(req[r2]))
            => req[r1].links[1].name # req[r2].links[1].name

(* C20, amended: two requests that both use the generated fallback name    *)
(* send payment links with distinct names exactly when they read distinct *)
(* timestamps; two that read the same timestamp send the same name.       *)
C20_DistinctIffTimestampsDiffer ==
    \A r1, r2 \in Requests :
        (r1 # r2 /\ SentGenerated(req[r1]) /\ SentGenerated(req[r2]))
            => (req[r1].links[1].name # req[r2].links[1].name
                    <=> req[r1].now # req[r2].now)

(* both requests sent their link under a generated name, clocks differ *)
C20_Witness ==
    /\ SentGenerated(req[1]) /\ SentGenerated(req[2])
    /\ req[1].now # req[2].now
    /\ req[1].links[1].name # req[2].links[1].name

---------------------------------------------------------------------------
(* the listConsumers calls of a request, in the order they were made *)
ListCalls(h) == CallsOf(h, "listConsumers")

(* 1 = phone search, 2 = email search, 3 = page fetch *)
StrategyOf(q, call) ==
    IF call.search_term = Undefined THEN 3
    ELSE IF call.search_term = q.customerPhone THEN 1
    ELSE 2

(* C21: resolution tries phone search, email search and pagination in      *)
(* that order, each search at most once, the phone search only with a     *)
(* customerPhone and the email search only with a customerEmail; a        *)
(* request that holds a match is never about to make another              *)
(* listConsumers call, so a match ends the cascade.                       *)
C21_StrategiesInOrderStopAtMatch ==
    \A r \in Requests :
        LET h == req[r]
            q == h.query
            lc == ListCalls(h)
        IN  /\ \A i, j \in 1..Len(lc) :
                   i < j => /\ StrategyOf(q, lc[i]) <= StrategyOf(q, lc[j])
                            /\ StrategyOf(q, lc[i]) < 3
                                 => StrategyOf(q, lc[i]) < StrategyOf(q, lc[j])
            /\ \A i \in 1..Len(lc) :
                   /\ StrategyOf(q, lc[i]) = 1 => Truthy(q.customerPhone)
                   /\ StrategyOf(q, lc[i]) = 2
                        => Truthy(q.customerEmail) /\ lc[i].search_term = q.customerEmail
            /\ h.pc \in {"phoneSearch", "emailSearch", "paginate"}
                   => h.existingConsumer = <<>>
            /\ (h.existingConsumer # <<>> /\ lc # <<>>)
                   => \A c \in {h.existingConsumer[1]} :
                          CASE StrategyOf(q, lc[Len(lc)]) = 1 -> PhoneSearchMatch(q, c)
                            [] StrategyOf(q, lc[Len(lc)]) = 2 -> EmailSearchMatch(q, c)
                            [] OTHER -> PageMatch(q, c)

(* phone and email both supplied, the phone search matched: one call only *)
C21_Witness ==
    \E r \in Requests :
        LET h == req[r]
        IN  /\ Truthy(h.query.customerPhone) /\ Truthy(h.query.customerEmail)
            /\ h.existingConsumer # <<>>
            /\ ListCalls(h) = <<Call("listConsumers", 1, PageSize, h.query.customerPhone)>>
            /\ h.pc = "done"

---------------------------------------------------------------------------
(* the entries of page p that match the request's phone or email exactly *)
MatchesOn(q, p) == SelectSeq(PageOf(Existing, p), LAMBDA c : PageMatch(q, c))

(* C22: the page fetches of a request are pages 1, 2, 3, ... in order,     *)
(* each with size 100 and no search term, at most 50 of them; a page is   *)
(* fetched only if every page before it reported a next page and, in the  *)
(* entries it delivered, held no exact phone or email match.              *)
C22_PagesInOrderUntilStop ==
    \A r \in Requests :
        LET h == req[r]
            pf == PageFetches(h)
        IN  /\ \A i \in 1..Len(pf) : pf[i] = Call("listConsumers", i, PageSize, Undefined)
            /\ Len(pf) <= PageLimit
            /\ \A i \in 1..(Len(pf) - 1) :
                   /\ i < dirPages
                   /\ ~h.missed => MatchesOn(h.query, i) = <<>>
            /\ (h.pc = "paginate" /\ Len(pf) > 0)
                   => /\ Len(pf) < dirPages
                      /\ ~h.missed => MatchesOn(h.query, Len(pf)) = <<>>

(* the match sits on page 50: fifty fetches, then none *)
C22_Witness ==
    \E r \in Requests :
        LET h == req[r]
        IN  /\ Len(PageFetches(h)) = PageLimit
            /\ h.existingConsumer # <<>>
            /\ h.existingConsumer[1].page = PageLimit
            /\ h.pc = "done"

---------------------------------------------------------------------------
(* fifty page fetches returned and none delivered a match *)
CapReached(h) ==
    /\ Len(PageFetches(h)) = PageLimit
    /\ h.pc # "paginate"
    /\ "listConsumers" \notin h.thrown
    /\ h.existingConsumer = <<>>

(* C23: a request whose pagination reached the 50-page cap without a match *)
(* does not fail because of it: it goes on to createConsumer (exactly one *)
(* call) when customerName was supplied and to guest checkout otherwise,   *)
(* and then to createPaymentLink; only a failure of one of those later     *)
(* calls reaches next(error).                                             *)
C23_CapIsNotAnError ==
    \A r \in Requests :
        LET h == req[r]
        IN  CapReached(h)
                => /\ h.pc \in {"createConsumer", "createPaymentLink", "done"}
                   /\ h.nextErrs # <<>> => h.thrown # {}
                   /\ IF Truthy(h.query.customerName)
                      THEN \/ h.pc = "createConsumer" /\ CallsOf(h, "createConsumer") = <<>>
                           \/ Len(CallsOf(h, "createConsumer")) = 1
                      ELSE /\ CallsOf(h, "createConsumer") = <<>>
                           /\ h.consumerId = Undefined
                   /\ (h.pc = "done" /\ h.thrown = {})
                        => /\ Len(h.links) = 1
                           /\ h.res # <<>>

(* a directory of 51 pages: the cap cut the scan short, the consumer was  *)
(* created and the customer redirected                                    *)
C23_Witness ==
    \E r \in Requests :
        LET h == req[r]
        IN  /\ CapReached(h)
            /\ dirPages > PageLimit
            /\ Len(CallsOf(h, "createConsumer")) = 1
            /\ Redirected(h)

---------------------------------------------------------------------------
(* both requests name the same customer by phone or by email, with a name, *)
(* and the directory held no such consumer when they arrived              *)
SameNewCustomer(q1, q2) ==
    /\ Truthy(q1.customerName) /\ Truthy(q2.customerName)
    /\ \/ Truthy(q1.customerPhone) /\ q1.customerPhone = q2.customerPhone
       \/ Truthy(q1.customerEmail) /\ q1.customerEmail = q2.customerEmail
    /\ \A i \in 1..Len(Existing) : ~PageMatch(q1, Existing[i])

(* C24: two concurrent requests for the same new customer never both call  *)
(* createConsumer, so the directory ends with at most one consumer of     *)
(* that phone or email.                                                   *)
C24_NeverBothCreate ==
    \A r1, r2 \in Requests :
        (r1 # r2 /\ SameNewCustomer(req[r1].query, req[r2].query))
            => ~(/\ CallsOf(req[r1], "createConsumer") # <<>>
                 /\ CallsOf(req[r2], "createConsumer") # <<>>)

---------------------------------------------------------------------------
(* C25: provided every remote call eventually returns or fails, every      *)
(* checkout request eventually reaches a final outcome, whatever the      *)
(* directory holds, also when every page fetched reports a next page.     *)
C25_EveryRequestTerminates ==
    <>(\A r \in Requests : req[r].pc = "done")

(* a directory of more than fifty pages was scanned to the cap and the     *)
(* request finished                                                       *)
C25_Witness ==
    \E r \in Requests :
        /\ dirPages > PageLimit
        /\ Len(PageFetches(req[r])) = PageLimit
        /\ req[r].pc = "done"

---------------------------------------------------------------------------
(* what the request has sent so far: responses, redirects, next(error) *)
Outcomes(h) == Len(h.res) + Len(h.nextErrs)

(* C26: a finished request has produced exactly one of: a 400 response, a  *)
(* 500 response, a redirect, next(error); an unfinished one has produced   *)
(* none.  So no response is followed by next(error) or by a redirect.      *)
C26_ExactlyOneOutcome ==
    \A r \in Requests :
        LET h == req[r]
        IN  /\ Outcomes(h) = IF h.pc = "done" THEN 1 ELSE 0
            /\ \A i \in 1..Len(h.res) :
                   \/ h.res[i].kind = "json" /\ h.res[i].status \in {400, 500}
                   \/ h.res[i].kind = "redirect"

(* createPaymentLink threw: next(error) and nothing else *)
C26_Witness ==
    \E r \in Requests :
        LET h == req[r]
        IN  /\ h.pc = "done"
            /\ "createPaymentLink" \in h.thrown
            /\ Len(h.nextErrs) = 1
            /\ h.res = <<>>

---------------------------------------------------------------------------
(* C27: a request calls createPaymentLink at most once, and as the last of *)
(* its remote calls, so after every listConsumers and createConsumer      *)
(* call; it does not call it when it answered 400 nor when createConsumer *)
(* or a page fetch threw.                                                 *)
C27_LinkOnceAfterResolution ==
    \A r \in Requests :
        LET h == req[r]
            n == Len(h.calls)
        IN  /\ Len(CallsOf(h, "createPaymentLink")) <= 1
            /\ Len(h.links) = Len(CallsOf(h, "createPaymentLink"))
            /\ \A i \in 1..n : h.calls[i].op = "createPaymentLink" => i = n
            /\ h.pc \in {"phoneSearch", "emailSearch", "paginate", "createConsumer"}
                   => CallsOf(h, "createPaymentLink") = <<>>
            /\ Answered(h, 400, NoProductsError) => h.calls = <<>>
            /\ h.thrown \cap {"listConsumers", "createConsumer"} # {}
                   => CallsOf(h, "createPaymentLink") = <<>>

(* searches, a page fetch, a consumer created, then the one link *)
C27_Witness ==
    \E r \in Requests :
        LET h == req[r]
        IN  /\ Len(ListCalls(h)) >= 2
            /\ Len(CallsOf(h, "createConsumer")) = 1
            /\ h.calls[Len(h.calls)].op = "createPaymentLink"
            /\ Redirected(h)

---------------------------------------------------------------------------
(* C28: a request calls createConsumer at most once, and only when no      *)
(* customerId was supplied, customerName was supplied, customerPhone or   *)
(* customerEmail was supplied, and no strategy left a match; the payload  *)
(* is the name, the phone number only if customerPhone was supplied and   *)
(* the email only if customerEmail was supplied.                          *)
C28_CreateOnceWhenWarranted ==
    \A r \in Requests :
        LET h == req[r]
            q == h.query
        IN  /\ Len(CallsOf(h, "createConsumer")) <= 1
            /\ Len(h.created) = Len(CallsOf(h, "createConsumer"))
            /\ h.created # <<>>
                => /\ q.customerId \in {Undefined, ""}
                   /\ q.customerName \notin {Undefined, ""}
                   /\ q.customerPhone \notin {Undefined, ""}
                        \/ q.customerEmail \notin {Undefined, ""}
                   /\ h.existingConsumer = <<>>
                   /\ h.created[1].name = q.customerName
                   /\ h.created[1].phone_number =
                          IF q.customerPhone \in {Undefined, ""}
                          THEN Undefined ELSE q.customerPhone
                   /\ h.created[1].email =
                          IF q.customerEmail \in {Undefined, ""}
                          THEN Undefined ELSE q.customerEmail

(* a phone and a name, no email: created with the phone only *)
C28_Witness ==
    \E r \in Requests :
        LET h == req[r]
        IN  /\ Len(h.created) = 1
            /\ h.created[1].phone_number = Phone1
            /\ h.created[1].email = Undefined
            /\ Redirected(h)

---------------------------------------------------------------------------
(* the request supplies a phone and an email that belong to two different  *)
(* consumers of the directory                                             *)
SplitIdentity(q) ==
    /\ Truthy(q.customerPhone) /\ Truthy(q.customerEmail)
    /\ \E i, j \in 1..Len(Existing) :
           /\ i # j
           /\ Existing[i].phone_number = q.customerPhone
           /\ Existing[i].email # q.customerEmail
           /\ Existing[j].email = q.customerEmail
           /\ Existing[j].phone_number # q.customerPhone

(* C29: when phone and email are supplied and belong to two different      *)
(* existing consumers, a match left by the phone search is the consumer   *)
(* with that phone; the consumer with the email is resolved only after    *)
(* the phone search left no match, by the email search or by a page       *)
(* fetch; and a match left by a page fetch is the first entry of that     *)
(* page, in directory order, that matches either field.                   *)
C29_PhoneBeforeEmail ==
    \A r \in Requests :
        LET h == req[r]
            q == h.query
            lc == ListCalls(h)
        IN  (SplitIdentity(q) /\ h.existingConsumer # <<>>)
                => LET c == h.existingConsumer[1]
                       last == StrategyOf(q, lc[Len(lc)])
                   IN  /\ c.phone_number = q.customerPhone \/ c.email = q.customerEmail
                       /\ last = 1 => c.phone_number = q.customerPhone /\ Len(lc) = 1
                       /\ c.phone_number # q.customerPhone
                            => /\ last \in {2, 3}
                               /\ StrategyOf(q, lc[1]) = 1
                       /\ last = 3 => c = MatchesOn(q, Len(PageFetches(h)))[1]

(* the consumer with the email comes first in the directory, yet the phone *)
(* search resolves the one with the phone                                 *)
C29_Witness ==
    \E r \in Requests :
        LET h == req[r]
        IN  /\ SplitIdentity(h.query)
            /\ Existing[1].email = h.query.customerEmail
            /\ h.existingConsumer # <<>>
            /\ h.existingConsumer[1].phone_number = h.query.customerPhone
            /\ Len(ListCalls(h)) = 1
            /\ h.pc = "done"

---------------------------------------------------------------------------
(* page i held a match that the request did not get: the response for it  *)
(* came without its data list                                             *)
NoDataAt(h, i) ==
    /\ h.missed
    /\ i <= Len(PageFetches(h))
    /\ MatchesOn(h.query, i) # <<>>
    /\ h.existingConsumer = <<>> \/ h.existingConsumer[1].page # i

(* the last page fetched reported no pagination although the directory    *)
(* has more pages, and no page fetched held a match                       *)
NoPaginationAtLast(h) ==
    /\ h.missed
    /\ \A i \in 1..Len(PageFetches(h)) : MatchesOn(h.query, i) = <<>>

(* C30 as stated: a page response without pagination information or       *)
(* without a data list is the last page fetched: the loop ends after it.  *)
C30_PartialPageEndsLoop ==
    \A r \in Requests :
        LET h == req[r]
        IN  \A i \in 1..Len(PageFetches(h)) :
                NoDataAt(h, i) => (i = Len(PageFetches(h)) /\ h.pc # "paginate")

(* C30, amended: neither defect raises an error.  A response without       *)
(* pagination information is the last page fetched, and resolution goes   *)
(* on to creation or guest checkout.  A response without a data list      *)
(* yields no match from its page, and the loop goes on to the next page   *)
(* only if the response reports has_next_page = true.                     *)
C30_PartialPageHandled ==
    \A r \in Requests :
        LET h == req[r]
            pf == PageFetches(h)
        IN  /\ (h.missed /\ h.nextErrs # <<>>) => h.thrown # {}
            /\ NoPaginationAtLast(h)
                => /\ h.pc \in {"createConsumer", "createPaymentLink", "done"}
                   /\ Len(pf) < dirPages
                   /\ h.existingConsumer = <<>>
            /\ \A i \in 1..Len(pf) :
                   NoDataAt(h, i)
                        => /\ i < Len(pf) => i < dirPages
                           /\ h.existingConsumer # <<>>
                                => h.existingConsumer[1].page > i

(* page 1 of a longer directory came without pagination: one fetch, then   *)
(* the consumer is created and the customer redirected                    *)
C30_Witness ==
    \E r \in Requests :
        LET h == req[r]
        IN  /\ NoPaginationAtLast(h)
            /\ Len(PageFetches(h)) = 1
            /\ dirPages > 1
            /\ Len(h.created) = 1
            /\ Redirected(h)

====
